---- MODULE Spec2Model ----
(***************************************************************************)
(* A model of lens_app_matcher.py: the label extractor                      *)
(* (GitHubAPIClient.extract_label_value), the single code-search request    *)
(* (_search_combined_patterns) and the `search` command with its JSON and   *)
(* tab-separated exports; and of name_generator.py: the loop of             *)
(* NameGenerator.generate_names with its four naming strategies.            *)
(*                                                                          *)
(* A character is a one-character string, a Python str is a sequence of     *)
(* characters, Python's None / Optional[x] is the empty sequence / <<x>>.   *)
(***************************************************************************)
EXTENDS Integers, Sequences, FiniteSets, TLC

VARIABLES
    pc,          \* where the running call stands
    text,        \* extract_label_value's argument `text`
    label_key,   \* extract_label_value's argument `label_key`
    ret,         \* what extract_label_value returned (an Optional)
    max_results, \* --max-results
    output,      \* --output (None when not given)
    tab_output,  \* --tab-output (None when not given)
    requests,    \* the HTTP requests issued so far, in order
    response,    \* what came back for the request (None before)
    results,     \* the list search_kubernetes_labels returned
    json_file,   \* the JSON file's content (None while not written)
    tab_file,    \* the tab-separated file's lines (None while not written)
    console,     \* the messages printed so far, in order
    word_combinations, \* NameGenerator.word_combinations, the analyzed words
    count,       \* generate_names' argument `count`
    topic_filter,\* generate_names' argument `topic_filter` (an Optional)
    word_list,   \* generate_names' local `word_list`
    names,       \* generate_names' local set `names`
    attempts,    \* generate_names' local `attempts`
    generated    \* the list generate_names returned

extract_vars == <<text, label_key, ret>>
search_vars == <<max_results, output, tab_output, requests, response, results,
                 json_file, tab_file, console>>
names_vars == <<word_combinations, count, topic_filter, word_list, names, attempts,
               generated>>
vars == <<pc, extract_vars, search_vars, names_vars>>

-----------------------------------------------------------------------------
(* Bounds of the model. *)

\* longest free-form text handed to the extractor
MaxTextLen == 4
\* longest label value of a composed `key: value` text
MaxValueLen == 2
\* most items in one API response
MaxItems == 2

-----------------------------------------------------------------------------
(* Python values. *)

None == <<>>
Some(x) == <<x>>

Min(a, b) == IF a < b THEN a ELSE b

\* every sequence over S of length at most n
SeqUpTo(S, n) == UNION {[1..m -> S] : m \in 0..n}

-----------------------------------------------------------------------------
(* The regular expression of extract_label_value, and the part of Python's  *)
(* re module it relies on.                                                  *)

\* \s of a str pattern
IsSpace(c) == c \in {" ", "\n", "\t"}

\* ["']
IsQuote(c) == c \in {"\"", "'"}

\* [^"'\s\n]
IsValueChar(c) == ~IsQuote(c) /\ ~IsSpace(c) /\ c # "\n"

\* str.lower() on the letters of the model's alphabets
Lower(c) ==
    CASE c = "K" -> "k"
      [] c = "A" -> "a"
      [] c = "B" -> "b"
      [] c = "N" -> "n"
      [] OTHER -> c

\* the characters re.escape puts a backslash before (those of the model's alphabets)
IsSpecial(c) == c \in {".", " ", "\n", "\t", "-"}

\* mutant: the key goes into the pattern as it is
re_escape_skipped(s) == s

\* re.escape: only the label key is escaped
RECURSIVE re_escape(_)
re_escape(s) ==
    IF s = <<>> THEN <<>>
    ELSE (IF IsSpecial(Head(s)) THEN <<"\\", Head(s)>> ELSE <<Head(s)>>)
         \o re_escape(Tail(s))

\* a pattern token: an atom, a quantifier ("1", "?", "*", "+") and whether it
\* is capture group 1
Tok(atom, c, q, grp) == [atom |-> atom, c |-> c, q |-> q, grp |-> grp]

\* the pattern compiler on the escaped key: backslash-c is the literal c, an
\* unescaped dot is the wildcard, any other character is itself
RECURSIVE CompileKey(_)
CompileKey(s) ==
    IF s = <<>> THEN <<>>
    ELSE IF Head(s) = "\\" /\ Len(s) >= 2
         THEN <<Tok("lit", s[2], "1", FALSE)>> \o CompileKey(Tail(Tail(s)))
    ELSE IF Head(s) = "."
         THEN <<Tok("any", "", "1", FALSE)>> \o CompileKey(Tail(s))
    ELSE <<Tok("lit", Head(s), "1", FALSE)>> \o CompileKey(Tail(s))

\* mutant: no opening quote in the pattern,  :\s*([^"'\s\n]+)["']?
ValuePatternBare ==
    << Tok("lit", ":", "1", FALSE),
       Tok("space", "", "*", FALSE),
       Tok("value", "", "+", TRUE),
       Tok("quote", "", "?", FALSE) >>

\* the rest of the f-string:  :\s*["']?([^"'\s\n]+)["']?
ValuePattern ==
    << Tok("lit", ":", "1", FALSE),
       Tok("space", "", "*", FALSE),
       Tok("quote", "", "?", FALSE),
       Tok("value", "", "+", TRUE),
       Tok("quote", "", "?", FALSE) >>

\* mutant: re.IGNORECASE left out
AtomMatchesExactCase(tok, c, ignorecase) ==
    CASE tok.atom = "lit"   -> c = tok.c
      [] tok.atom = "any"   -> c # "\n"
      [] tok.atom = "space" -> IsSpace(c)
      [] tok.atom = "quote" -> IsQuote(c)
      [] tok.atom = "value" -> IsValueChar(c)

\* whether one atom matches one character (ignorecase: re.IGNORECASE)
AtomMatches(tok, c, ignorecase) ==
    CASE tok.atom = "lit"   -> IF ignorecase THEN Lower(c) = Lower(tok.c) ELSE c = tok.c
      [] tok.atom = "any"   -> c # "\n"
      [] tok.atom = "space" -> IsSpace(c)
      [] tok.atom = "quote" -> IsQuote(c)
      [] tok.atom = "value" -> IsValueChar(c)

\* how many consecutive characters from position p the atom matches, at most limit
RECURSIVE Run(_, _, _, _, _)
Run(tok, s, p, ignorecase, limit) ==
    IF limit = 0 \/ p > Len(s) \/ ~AtomMatches(tok, s[p], ignorecase) THEN 0
    ELSE 1 + Run(tok, s, p + 1, ignorecase, limit - 1)

\* The backtracking matcher: tokens k.. of toks against s from position p, g
\* being group 1 so far. Every quantifier is greedy: the longest repetition is
\* tried first, then shorter ones. The result is None or Some(group 1).
RECURSIVE MatchHere(_, _, _, _, _, _)
RECURSIVE TryCount(_, _, _, _, _, _, _, _)
MatchHere(toks, k, s, p, g, ignorecase) ==
    IF k > Len(toks) THEN Some(g)
    ELSE LET tok == toks[k]
             lo  == IF tok.q \in {"1", "+"} THEN 1 ELSE 0
             hi  == Run(tok, s, p, ignorecase,
                        IF tok.q \in {"1", "?"} THEN 1 ELSE Len(s))
         IN  TryCount(toks, k, s, p, g, ignorecase, hi, lo)

TryCount(toks, k, s, p, g, ignorecase, n, lo) ==
    IF n < lo THEN None
    ELSE LET g2 == IF toks[k].grp THEN SubSeq(s, p, p + n - 1) ELSE g
             r  == MatchHere(toks, k + 1, s, p + n, g2, ignorecase)
         IN  IF r # None THEN r
             ELSE TryCount(toks, k, s, p, g, ignorecase, n - 1, lo)

\* the start positions (the end of the text included) at which the pattern matches
MatchStarts(toks, s, ignorecase) ==
    {start \in 1..(Len(s) + 1) : MatchHere(toks, 1, s, start, <<>>, ignorecase) # None}

\* mutant: the last match is taken, as re.findall(...)[-1] would
re_search_last(toks, s, ignorecase) ==
    LET starts == MatchStarts(toks, s, ignorecase)
    IN  IF starts = {} THEN None
        ELSE MatchHere(toks, 1, s, CHOOSE i \in starts : \A j \in starts : j <= i,
                       <<>>, ignorecase)

\* re.search(pattern, text, flags), giving match.group(1): the scan goes from
\* the left and stops at the first start position with a match
re_search(toks, s, ignorecase) ==
    LET starts == MatchStarts(toks, s, ignorecase)
    IN  IF starts = {} THEN None
        ELSE MatchHere(toks, 1, s, CHOOSE i \in starts : \A j \in starts : i <= j,
                       <<>>, ignorecase)

\* escaped_key = re.escape(label_key)
escaped_key(key) == re_escape(key)

\* pattern = f'{escaped_key}:\\s*["\']?([^"\'\\s\\n]+)["\']?'
pattern(key) == CompileKey(escaped_key(key)) \o ValuePattern

\* GitHubAPIClient.extract_label_value
extract_label_value(txt, key) == re_search(pattern(key), txt, TRUE)

-----------------------------------------------------------------------------
(* The code-search request and the mapping of its items to results.         *)

\* the two label keys the search extracts
NameKey ==
    <<"a", "p", "p", ".", "k", "u", "b", "e", "r", "n", "e", "t", "e", "s",
      ".", "i", "o", "/", "n", "a", "m", "e">>
ComponentKey ==
    <<"a", "p", "p", ".", "k", "u", "b", "e", "r", "n", "e", "t", "e", "s",
      ".", "i", "o", "/", "c", "o", "m", "p", "o", "n", "e", "n", "t">>

\* the page size ceiling in  min(max_results, 100)
PageCap == 100
\* @click.option('--max-results', default=50)
DefaultMaxResults == 50

\* mutant: the page size is not capped
per_page_uncapped(n) == n

\* 'per_page': min(max_results, 100)
per_page(n) == Min(n, PageCap)

\* the one GET of _search_combined_patterns; no 'page' parameter is sent
search_request(n) == [url |-> "/search/code", per_page |-> per_page(n), page |-> None]

\* context_lines: the fragments of the item's text_matches, in order
RECURSIVE Fragments(_)
Fragments(matches) ==
    IF matches = <<>> THEN <<>>
    ELSE (IF Head(matches).fragment # None THEN <<Head(matches).fragment[1]>> ELSE <<>>)
         \o Fragments(Tail(matches))

context_lines(item) ==
    IF item.text_matches # None THEN Fragments(item.text_matches[1]) ELSE <<>>

\* Python's truth value of an Optional[str]: None and '' are false
Truthy(opt) == opt # None /\ opt[1] # <<>>

\* mutant: a component is not appended to extracted_values
RECURSIVE ExtractAllNamesInValues(_, _)
ExtractAllNamesInValues(lines, acc) ==
    IF lines = <<>> THEN acc
    ELSE LET line == Head(lines)
             name_value == extract_label_value(line, NameKey)
             acc1 == IF Truthy(name_value)
                     THEN [acc EXCEPT
                             !.extracted_names = Append(@, name_value[1]),
                             !.extracted_values =
                                 Append(@, <<"n", "a", "m", "e", ":">> \o name_value[1])]
                     ELSE acc
             component_value == extract_label_value(line, ComponentKey)
             acc2 == IF Truthy(component_value)
                     THEN [acc1 EXCEPT
                             !.extracted_components = Append(@, component_value[1])]
                     ELSE acc1
         IN  ExtractAllNamesInValues(Tail(lines), acc2)

\* mutant: the component of a line is extracted and appended before its name
RECURSIVE ExtractAllComponentFirst(_, _)
ExtractAllComponentFirst(lines, acc) ==
    IF lines = <<>> THEN acc
    ELSE LET line == Head(lines)
             component_value == extract_label_value(line, ComponentKey)
             acc1 == IF Truthy(component_value)
                     THEN [acc EXCEPT
                             !.extracted_components = Append(@, component_value[1]),
                             !.extracted_values =
                                 Append(@, <<"c", "o", "m", "p", "o", "n", "e", "n", "t", ":">>
                                           \o component_value[1])]
                     ELSE acc
             name_value == extract_label_value(line, NameKey)
             acc2 == IF Truthy(name_value)
                     THEN [acc1 EXCEPT
                             !.extracted_names = Append(@, name_value[1]),
                             !.extracted_values =
                                 Append(@, <<"n", "a", "m", "e", ":">> \o name_value[1])]
                     ELSE acc1
         IN  ExtractAllComponentFirst(Tail(lines), acc2)

\* the loop `for line in context_lines`, acc holding the three lists so far
RECURSIVE ExtractAll(_, _)
ExtractAll(lines, acc) ==
    IF lines = <<>> THEN acc
    ELSE LET line == Head(lines)
             name_value == extract_label_value(line, NameKey)
             acc1 == IF Truthy(name_value)
                     THEN [acc EXCEPT
                             !.extracted_names = Append(@, name_value[1]),
                             !.extracted_values =
                                 Append(@, <<"n", "a", "m", "e", ":">> \o name_value[1])]
                     ELSE acc
             component_value == extract_label_value(line, ComponentKey)
             acc2 == IF Truthy(component_value)
                     THEN [acc1 EXCEPT
                             !.extracted_components = Append(@, component_value[1]),
                             !.extracted_values =
                                 Append(@, <<"c", "o", "m", "p", "o", "n", "e", "n", "t", ":">>
                                           \o component_value[1])]
                     ELSE acc1
         IN  ExtractAll(Tail(lines), acc2)

\* an item lacking 'path', 'repository' or 'html_url' raises KeyError
HasRequiredKeys(item) ==
    item.path # None /\ item.repository # None /\ item.html_url # None

\* CodeSearchResult(...) for one item
CodeSearchResult(item) ==
    LET ex == ExtractAll(context_lines(item),
                         [extracted_names |-> <<>>, extracted_components |-> <<>>,
                          extracted_values |-> <<>>])
    IN  [file_path |-> item.path[1],
         repository |-> item.repository[1],
         line_number |-> 0,
         matched_line |-> item.name,
         context_lines |-> context_lines(item),
         html_url |-> item.html_url[1],
         extracted_values |-> ex.extracted_values,
         extracted_names |-> ex.extracted_names,
         extracted_components |-> ex.extracted_components]

\* fragments the API attaches to an item
NameLine(q, v) == <<" ", " ">> \o NameKey \o <<":", " ">> \o q \o v \o q
ComponentLine(q, v) == <<" ", " ">> \o ComponentKey \o <<":", " ">> \o q \o v \o q

Match(fragment) == [fragment |-> Some(fragment)]
MatchWithoutFragment == [fragment |-> None]

\* the text_matches an item may carry (None: the item has none)
TextMatchChoices ==
    { None,
      Some(<<Match(NameLine(<<"\"">>, <<"a">>))>>),
      Some(<<Match(ComponentLine(<<"'">>, <<"b">>))>>),
      Some(<<Match(NameLine(<<>>, <<"a">>)), Match(NameLine(<<>>, <<"c">>))>>),
      Some(<<Match(NameLine(<<>>, <<"B">>) \o <<"\n">> \o ComponentLine(<<>>, <<"a">>))>>),
      Some(<<MatchWithoutFragment, Match(<<"k", ":", " ", "a">>)>>),
      Some(<<Match(ComponentLine(<<>>, <<"b">>)), Match(NameLine(<<"\"">>, <<"a">>))>>) }

Repositories == {<<"o", "/", "a">>, <<"o", "/", "B">>}

ApiItem(repo, tm) ==
    [path |-> Some(<<"k", ".", "y", "m", "l">>),
     name |-> <<"k", ".", "y", "m", "l">>,
     repository |-> Some(repo),
     html_url |-> Some(<<"h", "/">> \o repo),
     text_matches |-> tm]

\* an item without its 'path'
IncompleteItem ==
    [path |-> None, name |-> <<>>, repository |-> Some(<<"o", "/", "a">>),
     html_url |-> Some(<<"h">>), text_matches |-> None]

ApiItems ==
    {ApiItem(repo, tm) : <<repo, tm>> \in Repositories \X TextMatchChoices}
    \cup {IncompleteItem}

\* CodeSearchResult(item), worked out once for each item of the model
ResultTable == {<<item, CodeSearchResult(item)>> : item \in ApiItems \ {IncompleteItem}}
ResultOf(item) == (CHOOSE p \in ResultTable : p[1] = item)[2]

\* items[:n], also for n < 0
SliceTo(items, n) ==
    IF n >= 0 THEN SubSeq(items, 1, Min(n, Len(items)))
    ELSE SubSeq(items, 1, Len(items) + n)

\* the loop `for item in data['items'][:max_results]`: the results, or the
\* KeyError an incomplete item raises
RECURSIVE MapItems(_, _)
MapItems(items, acc) ==
    IF items = <<>> THEN [raised |-> None, results |-> acc]
    ELSE IF ~HasRequiredKeys(Head(items)) THEN [raised |-> Some("KeyError"), results |-> acc]
    ELSE MapItems(Tail(items), Append(acc, ResultOf(Head(items))))

\* mutant: the handler lets the exception through
on_request_exception_reraised(resp) ==
    [raised |-> Some("RequestException"), results |-> <<>>, printed |-> <<"error">>]

\* except requests.RequestException as e: the error is printed, with a note
\* when e.response has status 403, and the (still empty) results are returned
on_request_exception(resp) ==
    [raised |-> None,
     results |-> <<>>,
     printed |-> IF resp.kind = "http_error" /\ resp.status = 403
                 THEN <<"error", "auth_note">> ELSE <<"error">>]

\* _search_combined_patterns from the answer to its request on: what it
\* returns (or raises) and what it prints.
\*   connection_error, timeout: session.get raises
\*   http_error: raise_for_status raises HTTPError
\*   bad_json: response.json() raises requests' JSONDecodeError
\*   ok: data is the decoded body, items its 'items' (None when absent)
search_combined_patterns(resp, n) ==
    IF resp.kind \in {"connection_error", "timeout", "http_error", "bad_json"}
    THEN on_request_exception(resp)
    ELSE IF resp.items # None /\ resp.items[1] # <<>>
    THEN LET m == MapItems(SliceTo(resp.items[1], n), <<>>)
         IN  IF m.raised # None
             THEN [raised |-> m.raised, results |-> <<>>, printed |-> <<>>]
             ELSE [raised |-> None, results |-> m.results, printed |-> <<"found">>]
    ELSE [raised |-> None, results |-> <<>>, printed |-> <<"found">>]

-----------------------------------------------------------------------------
(* The exports of the `search` command.                                     *)

\* ord(c) for the characters of label types, values and repository names
ord(c) ==
    CASE c = "." -> 46 [] c = "/" -> 47 [] c = ":" -> 58
      [] c = "A" -> 65 [] c = "B" -> 66 [] c = "K" -> 75 [] c = "N" -> 78
      [] c = "a" -> 97 [] c = "b" -> 98 [] c = "c" -> 99 [] c = "e" -> 101
      [] c = "i" -> 105 [] c = "k" -> 107 [] c = "m" -> 109 [] c = "n" -> 110
      [] c = "o" -> 111 [] c = "p" -> 112 [] c = "r" -> 114 [] c = "s" -> 115
      [] c = "t" -> 116 [] c = "u" -> 117

\* mutant: strings compared with their case folded
str_lt_casefold(a, b) ==
    \E i \in 1..(Len(b)) :
        /\ \A n \in 1..(i - 1) : n <= Len(a) /\ Lower(a[n]) = Lower(b[n])
        /\ i - 1 <= Len(a)
        /\ (i > Len(a) \/ ord(Lower(a[i])) < ord(Lower(b[i])))

\* a < b on str: by code point at the first difference, a proper prefix first
str_lt(a, b) ==
    \E i \in 1..(Len(b)) :
        /\ \A n \in 1..(i - 1) : n <= Len(a) /\ a[n] = b[n]
        /\ i - 1 <= Len(a)
        /\ (i > Len(a) \/ ord(a[i]) < ord(b[i]))

\* a < b on tuples of str: decided by the first element that differs
RECURSIVE tuple_lt(_, _)
tuple_lt(a, b) ==
    IF a = <<>> \/ b = <<>> THEN a = <<>> /\ b # <<>>
    ELSE IF Head(a) = Head(b) THEN tuple_lt(Tail(a), Tail(b))
    ELSE str_lt(Head(a), Head(b))

\* mutant: the value comes first in the key
sort_key_value_first(x) == <<x.value, x.type, x.repository>>

\* key=lambda x: (x['type'], x['value'], x['repository'])
sort_key(x) == <<x.type, x.value, x.repository>>

\* list.sort(key=...): stable, so an entry goes after every entry sorted so
\* far whose key is not greater than its own
RECURSIVE InsertSorted(_, _)
InsertSorted(sorted, x) ==
    IF sorted = <<>> THEN <<x>>
    ELSE IF tuple_lt(sort_key(x), sort_key(Head(sorted))) THEN <<x>> \o sorted
    ELSE <<Head(sorted)>> \o InsertSorted(Tail(sorted), x)

RECURSIVE SortFrom(_, _)
SortFrom(entries, sorted) ==
    IF entries = <<>> THEN sorted
    ELSE SortFrom(Tail(entries), InsertSorted(sorted, Head(entries)))

sort_entries(entries) == SortFrom(entries, <<>>)

\* the entries of one result: its names, then its components
EntriesOfType(type, values, result) ==
    [i \in 1..Len(values) |->
        [type |-> type, value |-> values[i],
         repository |-> result.repository, url |-> result.html_url]]

EntriesOf(result) ==
    EntriesOfType(<<"n", "a", "m", "e">>, result.extracted_names, result)
    \o EntriesOfType(<<"c", "o", "m", "p", "o", "n", "e", "n", "t">>,
                     result.extracted_components, result)

\* mutant: one entry per unique value, a value seen in a later result is skipped
RECURSIVE label_entries_unique(_)
label_entries_unique(rs) ==
    IF rs = <<>> THEN <<>>
    ELSE LET rest == label_entries_unique(Tail(rs))
             Fresh(e) == \A j \in 1..Len(rest) : rest[j].value # e.value
         IN  SelectSeq(EntriesOf(Head(rs)), Fresh) \o rest

\* label_entries, before it is sorted
RECURSIVE label_entries(_)
label_entries(rs) ==
    IF rs = <<>> THEN <<>> ELSE EntriesOf(Head(rs)) \o label_entries(Tail(rs))

\* hashlib.md5(text).hexdigest() and base64.b64encode, kept as the digest of
\* / the encoding of their argument
md5_hexdigest(s) == <<"md5">> \o s
b64encode(s) == <<"b64">> \o s

\* md5_and_base64encode
md5_and_base64encode(s) == <<md5_hexdigest(s), b64encode(md5_hexdigest(s))>>

\* the header line and the line of one entry, as their tab-separated fields
TabHeader ==
    <<"Label_Type", "Label_Value", "Repository", "URL", "MD5_Hash", "Base64_Encoded_MD5">>

\* mutant: the repository is hashed together with the value
TabRowHashingRepository(entry) ==
    <<entry.type, entry.value, entry.repository, entry.url,
      md5_and_base64encode(entry.repository \o entry.value)[1],
      md5_and_base64encode(entry.repository \o entry.value)[2]>>

TabRow(entry) ==
    <<entry.type, entry.value, entry.repository, entry.url,
      md5_and_base64encode(entry.value)[1], md5_and_base64encode(entry.value)[2]>>

\* the lines written to the tab-separated file
TabLines(entries) == <<TabHeader>> \o [i \in 1..Len(entries) |-> TabRow(entries[i])]

\* the 'results' list of the JSON file
JsonContent(rs) ==
    [search_patterns |-> <<NameKey, ComponentKey>>,
     results |-> [i \in 1..Len(rs) |->
        [repository |-> rs[i].repository,
         file_path |-> rs[i].file_path,
         line_number |-> rs[i].line_number,
         matched_line |-> rs[i].matched_line,
         context_lines |-> rs[i].context_lines,
         extracted_names |-> rs[i].extracted_names,
         extracted_components |-> rs[i].extracted_components,
         extracted_values |-> rs[i].extracted_values,
         html_url |-> rs[i].html_url]]]

\* `if output:` / `if tab_output:`: a path that is given and not empty
PathGiven(path) == path # None /\ path[1] # ""

\* whether the command goes on after the search: `if not results: return`
HasResults(rs) == rs # <<>>

\* mutant: `if label_entries:` left out
WritesTabWhenAsked(path, rs) == PathGiven(path)

\* whether the tab-separated file is opened: `if tab_output:` and `if label_entries:`
WritesTab(path, rs) == PathGiven(path) /\ label_entries(rs) # <<>>

\* whether the JSON file is opened: `if output:`
WritesJson(path) == PathGiven(path)

-----------------------------------------------------------------------------
(* One invocation of the `search` command.                                  *)

\* what may come back for the request
Responses ==
    {[kind |-> k, status |-> 0, items |-> None] :
        k \in {"connection_error", "timeout", "bad_json"}}
    \cup {[kind |-> "http_error", status |-> st, items |-> None] : st \in {403, 500}}
    \cup {[kind |-> "ok", status |-> 200, items |-> None]}
    \cup {[kind |-> "ok", status |-> 200, items |-> Some(its)] :
            its \in SeqUpTo(ApiItems, MaxItems)}

MaxResultsChoices == {-1, 0, 1, DefaultMaxResults, PageCap, PageCap + 1}
PathChoices == {None, Some("out")}

Init ==
    /\ pc = "start"
    /\ max_results \in MaxResultsChoices
    /\ output \in PathChoices
    /\ tab_output \in PathChoices
    /\ requests = <<>> /\ response = None /\ results = <<>>
    /\ json_file = None /\ tab_file = None /\ console = <<>>
    /\ text = <<>> /\ label_key = <<>> /\ ret = None
    /\ word_combinations = {} /\ count = 0 /\ topic_filter = None
    /\ word_list = <<>> /\ names = {} /\ attempts = 0 /\ generated = <<>>

\* search_kubernetes_labels up to response = self.session.get(...)
SendRequest ==
    /\ pc = "start"
    /\ requests' = Append(requests, search_request(max_results))
    /\ pc' = "awaiting"
    /\ UNCHANGED <<extract_vars, names_vars, max_results, output, tab_output, response, results,
                   json_file, tab_file, console>>

\* the rest of _search_combined_patterns, for whatever comes back
Receive ==
    /\ pc = "awaiting"
    /\ \E resp \in Responses :
        LET r == search_combined_patterns(resp, max_results)
        IN  /\ response' = Some(resp)
            /\ results' = r.results
            /\ console' = console \o r.printed
            /\ pc' = IF r.raised # None THEN "crashed" ELSE "searched"
    /\ UNCHANGED <<extract_vars, names_vars, max_results, output, tab_output, requests,
                   json_file, tab_file>>

\* search(): `if not results:` ... return, else the table is printed
Report ==
    /\ pc = "searched"
    /\ IF HasResults(results)
       THEN pc' = "reported" /\ console' = console \o <<"found_matches", "table">>
       ELSE pc' = "done" /\ console' = Append(console, "no_matches")
    /\ UNCHANGED <<extract_vars, names_vars, max_results, output, tab_output, requests, response,
                   results, json_file, tab_file>>

\* search(): `if output:` ... json.dump
WriteJson ==
    /\ pc = "reported"
    /\ IF WritesJson(output)
       THEN \/ /\ json_file' = Some(JsonContent(results))
               /\ console' = Append(console, "json_saved")
               /\ pc' = "json_done"
            \/ \* open() raises OSError
               /\ pc' = "crashed"
               /\ UNCHANGED <<json_file, console>>
       ELSE pc' = "json_done" /\ UNCHANGED <<json_file, console>>
    /\ UNCHANGED <<extract_vars, names_vars, max_results, output, tab_output, requests, response,
                   results, tab_file>>

\* search(): `if tab_output:` ... the sorted entries are written
WriteTab ==
    /\ pc = "json_done"
    /\ IF WritesTab(tab_output, results)
       THEN \/ /\ tab_file' = Some(TabLines(sort_entries(label_entries(results))))
               /\ console' = console \o <<"tab_saved", "unique_counts", "total_entries">>
               /\ pc' = "done"
            \/ \* open() raises OSError
               /\ pc' = "crashed"
               /\ UNCHANGED <<tab_file, console>>
       ELSE /\ pc' = "done"
            /\ console' = IF PathGiven(tab_output)
                          THEN Append(console, "no_extracted_values") ELSE console
            /\ UNCHANGED tab_file
    /\ UNCHANGED <<extract_vars, names_vars, max_results, output, tab_output, requests, response,
                   results, json_file>>

Next == SendRequest \/ Receive \/ Report \/ WriteJson \/ WriteTab

Spec == Init /\ [][Next]_vars

-----------------------------------------------------------------------------
(* The extractor called on its own, as the unit tests call it.              *)

\* characters of the free-form texts
TextAlphabet == {"k", "K", ".", ":", " ", "\n", "\"", "a"}

\* label keys of the free-form texts
TextKeys == {<<"k">>, <<".">>, <<"k", ".">>}

\* label keys and value characters of the composed `key: value` texts
LabelKeys == {<<"k">>, <<"k", ".">>}
ValueAlphabet == {"a", "A", ".", ":"}
Quotes == {<<>>, <<"\"">>, <<"'">>}

\* every re-casing of a key
Recasings(key) ==
    {s \in [1..Len(key) -> {"k", "K", "."}] :
        \A i \in 1..Len(key) : Lower(s[i]) = Lower(key[i])}

\* key: value, the value bare or in quotes
LabelText(key, q, v) == key \o <<":", " ">> \o q \o v \o q

\* <<label_key, text>> pairs: free-form texts, one label, two labels on two lines
FreeInputs == TextKeys \X SeqUpTo(TextAlphabet, MaxTextLen)

OneLabelInputs ==
    {<<key, LabelText(k2, q, v)>> :
        <<key, k2, q, v>> \in
            {x \in LabelKeys \X SeqUpTo({"k", "K", "."}, 2) \X Quotes
                   \X SeqUpTo(ValueAlphabet, MaxValueLen) : x[2] \in Recasings(x[1])}}

TwoLabelInputs ==
    {<<in[1], in[2] \o <<"\n">> \o LabelText(in[1], <<>>, v2)>> :
        <<in, v2>> \in OneLabelInputs \X (SeqUpTo(ValueAlphabet, MaxValueLen) \ {<<>>})}

ExtractInputs == FreeInputs \cup OneLabelInputs \cup TwoLabelInputs

InitExtract ==
    /\ pc = "call"
    /\ \E in \in ExtractInputs : label_key = in[1] /\ text = in[2]
    /\ ret = None
    /\ max_results = DefaultMaxResults
    /\ output = None /\ tab_output = None
    /\ requests = <<>> /\ response = None /\ results = <<>>
    /\ json_file = None /\ tab_file = None /\ console = <<>>
    /\ word_combinations = {} /\ count = 0 /\ topic_filter = None
    /\ word_list = <<>> /\ names = {} /\ attempts = 0 /\ generated = <<>>

\* result = client.extract_label_value(text, label_key)
Extract ==
    /\ pc = "call"
    /\ ret' = extract_label_value(text, label_key)
    /\ pc' = "returned"
    /\ UNCHANGED <<text, label_key, search_vars, names_vars>>

NextExtract == Extract

SpecExtract == InitExtract /\ [][NextExtract]_vars

-----------------------------------------------------------------------------
(* NameGenerator.generate_names. Every random.choice and random.sample, and  *)
(* the order in which a set is listed, is a choice the model leaves open.    *)

\* most names asked for in one call
MaxCount == 2
\* max_attempts = count * 10
AttemptsPerName == 10
\* random.sample(word_list, min(50, len(word_list)))
SampleCap == 50

LowerLetters ==
    <<"a", "b", "c", "d", "e", "f", "g", "h", "i", "j", "k", "l", "m",
      "n", "o", "p", "q", "r", "s", "t", "u", "v", "w", "x", "y", "z">>
UpperLetters ==
    <<"A", "B", "C", "D", "E", "F", "G", "H", "I", "J", "K", "L", "M",
      "N", "O", "P", "Q", "R", "S", "T", "U", "V", "W", "X", "Y", "Z">>

\* the position of the letter in the alphabet, 0 for any other character
LetterIndex(letters, c) ==
    IF \E i \in 1..Len(letters) : letters[i] = c
    THEN CHOOSE i \in 1..Len(letters) : letters[i] = c
    ELSE 0

chr_upper(c) ==
    IF LetterIndex(LowerLetters, c) > 0 THEN UpperLetters[LetterIndex(LowerLetters, c)] ELSE c
chr_lower(c) ==
    IF LetterIndex(UpperLetters, c) > 0 THEN LowerLetters[LetterIndex(UpperLetters, c)] ELSE c
IsCased(c) == LetterIndex(LowerLetters, c) > 0 \/ LetterIndex(UpperLetters, c) > 0

\* str.lower(), str.capitalize(), str.title()
str_lower(s) == [i \in 1..Len(s) |-> chr_lower(s[i])]
capitalize(s) == [i \in 1..Len(s) |-> IF i = 1 THEN chr_upper(s[i]) ELSE chr_lower(s[i])]
title(s) ==
    [i \in 1..Len(s) |->
        IF i > 1 /\ IsCased(s[i - 1]) THEN chr_lower(s[i]) ELSE chr_upper(s[i])]

\* `sub in s` on str
Contains(s, sub) ==
    \E i \in 0..(Len(s) - Len(sub)) : SubSeq(s, i + 1, i + Len(sub)) = sub

\* self.common_suffixes, self.common_prefixes, tech_suffixes
common_suffixes ==
    << <<"a", "p", "p">>, <<"h", "u", "b">>, <<"k", "i", "t">>,
       <<"c", "r", "a", "f", "t">>, <<"f", "o", "r", "g", "e">>, <<"l", "a", "b">>,
       <<"s", "t", "u", "d", "i", "o">>, <<"w", "o", "r", "k", "s">> >>
common_prefixes ==
    << <<"s", "u", "p", "e", "r">>, <<"u", "l", "t", "r", "a">>, <<"m", "e", "g", "a">>,
       <<"p", "r", "o">>, <<"s", "m", "a", "r", "t">>, <<"q", "u", "i", "c", "k">>,
       <<"f", "a", "s", "t">>, <<"e", "a", "s", "y">> >>
tech_suffixes ==
    << <<"l", "y">>, <<"i", "o">>, <<"i", "f", "y">>, <<"j", "s">>, <<"g", "o">>,
       <<"p", "y">>, <<"r", "s">> >>

\* the elements of a list, as the set random.choice draws from
Elements(seq) == {seq[i] : i \in 1..Len(seq)}

\* what a strategy call ends with: a returned name, or the IndexError that
\* random.choice raises on an empty sequence
Returned(name) == [raised |-> FALSE, name |-> name]
IndexError == [raised |-> TRUE, name |-> <<>>]

\* [w for w in words if w != word1]
OtherWords(words, word1) ==
    LET Differs(w) == w # word1 IN SelectSeq(words, Differs)

\* _compound_names: every outcome of one call
compound_names(words) ==
    IF Len(words) < 2 THEN {Returned(<<>>)}
    ELSE UNION {
           IF OtherWords(words, word1) = <<>> THEN {IndexError}
           ELSE {Returned(capitalize(word1) \o capitalize(word2)) :
                    word2 \in Elements(OtherWords(words, word1))} :
           word1 \in Elements(words)}

\* _prefix_suffix_names
prefix_suffix_names(words) ==
    IF words = <<>> THEN {Returned(<<>>)}
    ELSE {Returned(capitalize(prefix) \o capitalize(base_word)) :
             <<prefix, base_word>> \in Elements(common_prefixes) \X Elements(words)}
         \cup {Returned(capitalize(base_word) \o capitalize(suffix)) :
             <<base_word, suffix>> \in Elements(words) \X Elements(common_suffixes)}

\* part1 and part2 of _tech_fusion_names
FusionHead(word1) ==
    IF Len(word1) > 3 THEN SubSeq(word1, 1, (Len(word1) \div 2) + 1) ELSE word1
FusionTail(word2) ==
    IF Len(word2) > 3 THEN SubSeq(word2, (Len(word2) \div 2) + 1, Len(word2)) ELSE word2

\* _tech_fusion_names
tech_fusion_names(words) ==
    IF Len(words) < 2 THEN {Returned(<<>>)}
    ELSE UNION {
           IF OtherWords(words, word1) = <<>> THEN {IndexError}
           ELSE {Returned(capitalize(FusionHead(word1) \o FusionTail(word2))) :
                    word2 \in Elements(OtherWords(words, word1))} :
           word1 \in Elements(words)}

\* _descriptive_names
descriptive_names(words) ==
    IF words = <<>> THEN {Returned(<<>>)}
    ELSE UNION {
           {Returned(base_word \o suffix) : suffix \in Elements(tech_suffixes)}
           \cup (IF base_word[Len(base_word)] = "e"
                 THEN {Returned(SubSeq(base_word, 1, Len(base_word) - 1) \o suffix) :
                          suffix \in Elements(tech_suffixes)}
                 ELSE {}) :
           base_word \in Elements(words)}

\* strategy(word_list) for strategy = random.choice(generation_strategies)
StrategyOutcomes(words) ==
    compound_names(words) \cup prefix_suffix_names(words)
    \cup tech_fusion_names(words) \cup descriptive_names(words)

\* the orders in which the elements of a set can be listed
Listings(S) ==
    {f \in [1..Cardinality(S) -> S] : \A i, j \in 1..Cardinality(S) : f[i] = f[j] => i = j}

\* random.sample(population, k): k elements at distinct positions, in any order
Samples(population, k) ==
    {[i \in 1..k |-> population[p[i]]] :
        p \in {f \in [1..k -> 1..Len(population)] :
                 \A i, j \in 1..k : f[i] = f[j] => i = j}}

\* [w for w in word_list if topic_filter.lower() in w or w in topic_filter.lower()]
topic_words(words, topic) ==
    LET Related(w) == Contains(w, str_lower(topic)) \/ Contains(str_lower(topic), w)
    IN  SelectSeq(words, Related)

\* the word lists the strategies may be handed
WordLists(listed, topic) ==
    IF Truthy(topic) /\ topic_words(listed, topic[1]) # <<>>
    THEN {topic_words(listed, topic[1]) \o sample :
             sample \in Samples(listed, Min(SampleCap, Len(listed)))}
    ELSE {listed}

\* the words the analysis may have collected: lowercase, longer than two letters
AnalyzedWords == {<<"w", "e", "b">>, <<"c", "o", "d", "e">>}
TopicFilters ==
    {None, Some(<<"W", "e">>), Some(<<"W", "e", "b", "s">>), Some(<<"g", "o">>)}

InitNames ==
    /\ pc = "generate"
    /\ word_combinations \in SUBSET AnalyzedWords
    /\ count \in 0..MaxCount
    /\ topic_filter \in TopicFilters
    /\ word_list = <<>> /\ names = {} /\ attempts = 0 /\ generated = <<>>
    /\ text = <<>> /\ label_key = <<>> /\ ret = None
    /\ max_results = DefaultMaxResults
    /\ output = None /\ tab_output = None
    /\ requests = <<>> /\ response = None /\ results = <<>>
    /\ json_file = None /\ tab_file = None /\ console = <<>>

\* generate_names up to the loop: names, word_list, attempts
BuildWordList ==
    /\ pc = "generate"
    /\ \E listed \in Listings(word_combinations) :
         word_list' \in WordLists(listed, topic_filter)
    /\ names' = {} /\ attempts' = 0
    /\ pc' = "looping"
    /\ UNCHANGED <<extract_vars, search_vars, word_combinations, count, topic_filter,
                   generated>>

\* `while len(names) < count and attempts < max_attempts`
LoopGoesOn == Cardinality(names) < count /\ attempts < count * AttemptsPerName

\* one pass of the loop; an IndexError leaves generate_names
Attempt ==
    /\ pc = "looping" /\ LoopGoesOn
    /\ \E outcome \in StrategyOutcomes(word_list) :
         IF outcome.raised
         THEN pc' = "raised" /\ UNCHANGED <<names, attempts>>
         ELSE /\ names' = IF outcome.name # <<>> /\ Len(outcome.name) > 3
                          THEN names \cup {title(outcome.name)}
                          ELSE names
              /\ attempts' = attempts + 1
              /\ pc' = "looping"
    /\ UNCHANGED <<extract_vars, search_vars, word_combinations, count, topic_filter,
                   word_list, generated>>

\* return list(names)[:count]
Return ==
    /\ pc = "looping" /\ ~LoopGoesOn
    /\ \E listed \in Listings(names) : generated' = SliceTo(listed, count)
    /\ pc' = "returned"
    /\ UNCHANGED <<extract_vars, search_vars, word_combinations, count, topic_filter,
                   word_list, names, attempts>>

NextNames == BuildWordList \/ Attempt \/ Return

SpecNames == InitNames /\ [][NextNames]_vars

-----------------------------------------------------------------------------
(* Properties of the extractor, checked under SpecExtract.                  *)

\* a character that is neither a quote character nor whitespace
PlainChar(c) == c \notin {"\"", "'", " ", "\n", "\t"}

\* v is made only of such characters
PlainValue(v) == \A i \in 1..Len(v) : PlainChar(v[i])

\* every <<i, j>> naming a piece text[i..j] of the text, the empty piece included
Pieces == {<<i, j>> \in (1..Len(text) + 1) \X (0..Len(text)) : j >= i - 1}

\* the text is  label_key + ': ' + q + v + q  for one of the three quotings
IsRoundTripOf(v) == \E q \in Quotes : text = LabelText(label_key, q, v)

\* key occurs in s at position i, letter case ignored
OccursAt(key, s, i) ==
    /\ i + Len(key) - 1 <= Len(s)
    /\ \A n \in 1..Len(key) : Lower(s[i + n - 1]) = Lower(key[n])

\* C1 as stated: for every key K and every value V of non-quote,
\* non-whitespace characters, extract(K + ': ' + q + V + q, K) = V for q a
\* double quote, a single quote or nothing.
C1_RoundTripAnyValue ==
    pc = "returned" =>
        \A <<i, j>> \in Pieces :
            LET v == SubSeq(text, i, j)
            IN  (PlainValue(v) /\ IsRoundTripOf(v)) => ret = Some(v)

\* C1 amended: the same for every non-empty value V; the empty value is not
\* returned as the empty string, the extractor returns None for it.
C1_RoundTripNonEmptyValue ==
    pc = "returned" =>
        /\ \A <<i, j>> \in Pieces :
              LET v == SubSeq(text, i, j)
              IN  (v # <<>> /\ PlainValue(v) /\ IsRoundTripOf(v)) => ret = Some(v)
        /\ IsRoundTripOf(<<>>) => ret = None

\* C1 witness: a quoted value with a dot in it came back whole.
C1_Witness ==
    /\ pc = "returned"
    /\ label_key = <<"k", ".">>
    /\ text = LabelText(label_key, <<"\"">>, <<"a", ".">>)
    /\ ret = Some(<<"a", ".">>)

\* the positions just after every `key:` of the text
AfterKeyColon ==
    {i + Len(label_key) + 1 : i \in
        {n \in 1..Len(text) : /\ OccursAt(label_key, text, n)
                              /\ n + Len(label_key) <= Len(text)
                              /\ text[n + Len(label_key)] = ":"}}

\* from position p to the end of p's line (or of the text) there is only whitespace
BlankToEndOfLine(p) ==
    \A j \in p..Len(text) :
        (\A n \in p..(j - 1) : text[n] # "\n") => IsSpace(text[j])

\* C2: when every `key:` of the text is followed only by whitespace up to the
\* end of its line or of the text, extract returns None, also when other
\* lines follow.
C2_KeyWithoutValueIsNone ==
    (/\ pc = "returned"
     /\ AfterKeyColon # {}
     /\ \A p \in AfterKeyColon : BlankToEndOfLine(p))
    => ret = None

\* C8: the key is literal text: a value is returned only if the characters of
\* the key themselves (letter case ignored) occur in the text, followed by a
\* colon; a text with another character where the key has a metacharacter
\* yields None.
C8_KeyIsLiteral ==
    (pc = "returned" /\ ret # None) => AfterKeyColon # {}

\* C8 witness: the key is `k.` and the text has `kk: a`: no value.
C8_Witness ==
    /\ pc = "returned"
    /\ label_key = <<"k", ".">>
    /\ text = <<"k", "k", ":", "a">>
    /\ ret = None

\* the value that follows position p: optional whitespace, an optional
\* quote, then the longest run of value characters
RECURSIVE SkipSpace(_)
SkipSpace(p) == IF p <= Len(text) /\ IsSpace(text[p]) THEN SkipSpace(p + 1) ELSE p
SkipQuote(p) == IF p <= Len(text) /\ IsQuote(text[p]) THEN p + 1 ELSE p
RECURSIVE ValueEnd(_)
ValueEnd(p) == IF p <= Len(text) /\ PlainChar(text[p]) THEN ValueEnd(p + 1) ELSE p
ValueAfter(p) == SubSeq(text, SkipQuote(SkipSpace(p)), ValueEnd(SkipQuote(SkipSpace(p))) - 1)

\* the occurrences of `key:` that a well-formed (non-empty) value follows
WellFormedOccurrences == {p \in AfterKeyColon : ValueAfter(p) # <<>>}

Least(S) == CHOOSE x \in S : \A y \in S : x <= y

\* C9: with several occurrences of the key, each followed by a well-formed
\* value, extract returns the value of the leftmost one.
C9_FirstMatchWins ==
    (/\ pc = "returned"
     /\ Cardinality(AfterKeyColon) >= 2
     /\ WellFormedOccurrences = AfterKeyColon)
    => ret = Some(ValueAfter(Least(AfterKeyColon)))

\* C9 witness: two lines with different values, the first one returned.
C9_Witness ==
    /\ pc = "returned"
    /\ text = <<"k", ":", " ", "a", "\n", "k", ":", " ", "A">>
    /\ label_key = <<"k">>
    /\ ret = Some(<<"a">>)

\* s is a re-casing of key
IsRecasingOf(s, key) == Len(s) = Len(key) /\ OccursAt(key, s, 1)

\* C10: the key matches whatever its letter case and the value comes back
\* in its own case: extract(K' + ': ' + V, K) = V for every re-casing K' of K
\* and every well-formed value V.
C10_CaseInsensitiveKey ==
    pc = "returned" =>
        \A <<i, j>> \in Pieces :
            LET v == SubSeq(text, i, j)
                k2 == SubSeq(text, 1, Min(Len(label_key), Len(text)))
            IN  (/\ v # <<>> /\ PlainValue(v)
                 /\ IsRecasingOf(k2, label_key)
                 /\ text = LabelText(k2, <<>>, v))
                => ret = Some(v)

\* C10 witness: the key in upper case, the value in mixed case.
C10_Witness ==
    /\ pc = "returned"
    /\ label_key = <<"k", ".">>
    /\ text = <<"K", ".", ":", " ", "A", "a">>
    /\ ret = Some(<<"A", "a">>)

-----------------------------------------------------------------------------
(* Properties of the search command and its exports, checked under Spec.    *)

\* the data rows of the tab-separated file: its lines after the header
Rows == IF tab_file = None THEN <<>> ELSE Tail(tab_file[1])

\* <<labelType, value>> of every row, in file order
RowTypesAndValues == [i \in 1..Len(Rows) |-> <<Rows[i][1], Rows[i][2]>>]

\* <<labelType, value>> of every label entry, in the order they were collected
CollectedTypesAndValues ==
    LET es == label_entries(results)
    IN  [i \in 1..Len(es) |-> <<es[i].type, es[i].value>>]

NameType == <<"n", "a", "m", "e">>
ComponentType == <<"c", "o", "m", "p", "o", "n", "e", "n", "t">>

\* the entries of the sorting example: (component, b), (name, a), (name, c)
SortingExample ==
    /\ tab_file # None
    /\ CollectedTypesAndValues =
         << <<ComponentType, <<"b">>>>, <<NameType, <<"a">>>>, <<NameType, <<"c">>>> >>

\* C3 as stated: for the entries (component, b), (name, a), (name, c) the
\* rows are name/a, name/c, component/b: name rows before component rows.
C3_NameRowsBeforeComponentRows ==
    SortingExample =>
        RowTypesAndValues =
            << <<NameType, <<"a">>>>, <<NameType, <<"c">>>>, <<ComponentType, <<"b">>>> >>

\* C3 amended: for those entries the rows are component/b, name/a, name/c,
\* and in every file every row of type component precedes every row of
\* type name.
C3_ComponentRowsBeforeNameRows ==
    /\ SortingExample =>
         RowTypesAndValues =
            << <<ComponentType, <<"b">>>>, <<NameType, <<"a">>>>, <<NameType, <<"c">>>> >>
    /\ \A i, j \in 1..Len(Rows) :
         (Rows[i][1] = ComponentType /\ Rows[j][1] = NameType) => i < j

\* C3 witness: the example's entries were collected and the file is written.
C3_Witness == SortingExample /\ pc = "done" /\ Len(Rows) = 3

\* the length of the longest common prefix of two strings
RECURSIVE CommonPrefix(_, _)
CommonPrefix(a, b) ==
    IF a = <<>> \/ b = <<>> \/ Head(a) # Head(b) THEN 0
    ELSE 1 + CommonPrefix(Tail(a), Tail(b))

\* a <= b, case-sensitive and by code point
CodePointLeq(a, b) ==
    LET n == CommonPrefix(a, b)
    IN  IF n = Len(a) THEN TRUE
        ELSE IF n = Len(b) THEN FALSE
        ELSE ord(a[n + 1]) < ord(b[n + 1])

\* (labelType, value, repository) of row r is <= that of row s
TripleLeq(r, s) ==
    IF r[1] # s[1] THEN CodePointLeq(r[1], s[1])
    ELSE IF r[2] # s[2] THEN CodePointLeq(r[2], s[2])
    ELSE CodePointLeq(r[3], s[3])

\* how often x occurs in seq
Count(seq, x) == Cardinality({i \in 1..Len(seq) : seq[i] = x})

\* the row each collected entry stands for
CollectedRows ==
    LET es == label_entries(results) IN [i \in 1..Len(es) |-> TabRow(es[i])]

\* C4: the rows ascend by (labelType, value, repository), compared
\* case-sensitively by code point, and are a permutation of the flattened
\* label entries.
C4_RowsSortedByTypeValueRepository ==
    tab_file # None =>
        /\ \A i \in 1..(Len(Rows) - 1) : TripleLeq(Rows[i], Rows[i + 1])
        /\ Len(Rows) = Len(CollectedRows)
        /\ \A i \in 1..Len(Rows) : Count(Rows, Rows[i]) = Count(CollectedRows, Rows[i])

\* C4 witness: rows that had to be moved, with values that differ in case
\* only by code point (B before a) and one value in two repositories.
C4_Witness ==
    /\ tab_file # None
    /\ Rows # CollectedRows
    /\ \E i, j \in 1..Len(Rows) :
         /\ i < j
         /\ Rows[i][1] = Rows[j][1]
         /\ \/ Rows[i][2] = <<"B">> /\ Rows[j][2] = <<"a">>
            \/ Rows[i][2] = Rows[j][2] /\ Rows[i][3] # Rows[j][3]

\* a path was given on the command line
Requested(path) == path # None

\* C5 as stated: no output file with zero results; otherwise every
\* requested file is written.
C5_EveryRequestedFileWritten ==
    pc = "done" =>
        IF results = <<>>
        THEN json_file = None /\ tab_file = None
        ELSE /\ Requested(output) => json_file # None
             /\ Requested(tab_output) => tab_file # None

\* some result carries an extracted name or component
SomeValueExtracted ==
    \E i \in 1..Len(results) :
        results[i].extracted_names # <<>> \/ results[i].extracted_components # <<>>

\* C5 amended: no output file with zero results; otherwise, once the command
\* has returned, the JSON file is written exactly when --output was given
\* and the tab-separated file exactly when --tab-output was given and at
\* least one label value was extracted.
C5_FilesWrittenWhenValuesExtracted ==
    /\ results = <<>> => json_file = None /\ tab_file = None
    /\ (pc = "done" /\ results # <<>>) =>
         /\ json_file # None <=> Requested(output)
         /\ tab_file # None <=> (Requested(tab_output) /\ SomeValueExtracted)

\* C5 witness: results without any label value, both files asked for, only
\* the JSON file written.
C5_Witness ==
    /\ pc = "done"
    /\ results # <<>> /\ ~SomeValueExtracted
    /\ Requested(output) /\ Requested(tab_output)
    /\ json_file # None /\ tab_file = None

\* the request failed: no connection, a timeout, a non-2xx status or a body
\* that is not JSON
RequestFailed == response # None /\ response[1].kind # "ok"

\* C6: on any failure of the request _search_combined_patterns returns the
\* empty list: no exception reaches the caller, no partial list is returned.
C6_FailureGivesEmptyResults ==
    RequestFailed => (pc # "crashed" /\ results = <<>>)

\* C6 witness: a 403 was answered, the command ended normally with no results.
C6_Witness ==
    /\ RequestFailed
    /\ response[1].kind = "http_error" /\ response[1].status = 403
    /\ pc = "done" /\ results = <<>>

\* C7: one invocation issues exactly one request, with per_page =
\* min(max_results, 100) and no further page; at most the items of that one
\* page become results.
C7_OneRequestOfOnePage ==
    /\ Len(requests) = (IF pc = "start" THEN 0 ELSE 1)
    /\ \A i \in 1..Len(requests) :
         /\ requests[i].per_page = (IF max_results < 100 THEN max_results ELSE 100)
         /\ requests[i].page = None
    /\ (response # None /\ response[1].items # None) =>
         Len(results) <= Len(response[1].items[1])
    /\ (response = None \/ response[1].items = None) => results = <<>>

\* C7 witness: 101 results asked for, one request with per_page 100, done.
C7_Witness ==
    /\ pc = "done"
    /\ max_results = 101
    /\ Len(requests) = 1 /\ requests[1].per_page = 100
    /\ results # <<>>

-----------------------------------------------------------------------------
(* Properties of the results and of their flattening, checked under Spec.   *)

\* C11: every result has as many extracted_values as extracted_names and
\* extracted_components together, whatever its context lines were.
C11_ValuesCountIsNamesPlusComponents ==
    \A i \in 1..Len(results) :
        Len(results[i].extracted_values)
            = Len(results[i].extracted_names) + Len(results[i].extracted_components)

\* C11 witness: one result without any context line next to one whose line
\* gave a name and a component, two values in all.
C11_Witness ==
    /\ Len(results) = 2
    /\ results[1].context_lines = <<>> /\ results[1].extracted_values = <<>>
    /\ Len(results[2].extracted_names) = 1
    /\ Len(results[2].extracted_components) = 1
    /\ Len(results[2].extracted_values) = 2

\* the number of value occurrences of all results
RECURSIVE ValueOccurrences(_)
ValueOccurrences(rs) ==
    IF rs = <<>> THEN 0
    ELSE Len(Head(rs).extracted_names) + Len(Head(rs).extracted_components)
         + ValueOccurrences(Tail(rs))

\* how often the result names the value under the label type, if the
\* repository and URL are its own
OccurrencesIn(result, type, value, repository, url) ==
    IF result.repository # repository \/ result.html_url # url THEN 0
    ELSE IF type = NameType THEN Count(result.extracted_names, value)
    ELSE IF type = ComponentType THEN Count(result.extracted_components, value)
    ELSE 0

RECURSIVE OccurrencesInAll(_, _, _, _, _)
OccurrencesInAll(rs, type, value, repository, url) ==
    IF rs = <<>> THEN 0
    ELSE OccurrencesIn(Head(rs), type, value, repository, url)
         + OccurrencesInAll(Tail(rs), type, value, repository, url)

\* <<labelType, value, repository, url>> of every row, in file order
RowOrigins == [i \in 1..Len(Rows) |-> <<Rows[i][1], Rows[i][2], Rows[i][3], Rows[i][4]>>]

\* C12: the tab-separated file has one header line and then one row per
\* extracted value occurrence: as many rows as all results have names and
\* components, each (type, value, repository, url) as often as the results
\* of that repository and URL hold the value, never once per unique value.
C12_OneRowPerValueOccurrence ==
    tab_file # None =>
        /\ Head(tab_file[1]) = TabHeader
        /\ Len(Rows) = ValueOccurrences(results)
        /\ \A i \in 1..Len(Rows) :
             Count(RowOrigins, RowOrigins[i])
                 = OccurrencesInAll(results, Rows[i][1], Rows[i][2], Rows[i][3], Rows[i][4])

\* C12 witness: two results of different repositories both name "a"; the
\* file has two rows for it, one with each repository and URL.
C12_Witness ==
    /\ tab_file # None
    /\ Len(results) = 2
    /\ results[1].repository # results[2].repository
    /\ results[1].extracted_names = << <<"a">> >>
    /\ results[2].extracted_names = << <<"a">> >>
    /\ Len(Rows) = 2
    /\ \A i \in 1..2 : \E j \in 1..2 :
         /\ Rows[j][1] = NameType /\ Rows[j][2] = <<"a">>
         /\ Rows[j][3] = results[i].repository /\ Rows[j][4] = results[i].html_url

\* C13: the two fingerprints of a row depend on its value alone: rows with
\* equal values have equal MD5_Hash and equal Base64_Encoded_MD5 fields,
\* whatever their type, repository and URL, and the second field is the
\* Base64 encoding of the first, the hex-digest string.
C13_FingerprintsDependOnValueOnly ==
    /\ \A i, j \in 1..Len(Rows) :
         Rows[i][2] = Rows[j][2] => (Rows[i][5] = Rows[j][5] /\ Rows[i][6] = Rows[j][6])
    /\ \A i \in 1..Len(Rows) :
         /\ Rows[i][5] = md5_hexdigest(Rows[i][2])
         /\ Rows[i][6] = b64encode(Rows[i][5])

\* C13 witness: the value "a" is a name in one repository and a component
\* in another; both rows carry the same two fingerprints.
C13_Witness ==
    \E i, j \in 1..Len(Rows) :
        /\ Rows[i][2] = <<"a">> /\ Rows[j][2] = <<"a">>
        /\ Rows[i][1] = NameType /\ Rows[j][1] = ComponentType
        /\ Rows[i][3] # Rows[j][3] /\ Rows[i][4] # Rows[j][4]
        /\ Rows[i][5] = Rows[j][5] /\ Rows[i][6] = Rows[j][6]

NamePrefix == <<"n", "a", "m", "e", ":">>
ComponentPrefix == <<"c", "o", "m", "p", "o", "n", "e", "n", "t", ":">>

HasPrefix(s, prefix) ==
    Len(s) >= Len(prefix) /\ SubSeq(s, 1, Len(prefix)) = prefix

\* the values of the entries that start with the prefix, in order
Restricted(values, prefix) ==
    LET Starts(v) == HasPrefix(v, prefix)
        sel == SelectSeq(values, Starts)
    IN  [i \in 1..Len(sel) |-> SubSeq(sel[i], Len(prefix) + 1, Len(sel[i]))]

\* what one context line contributes when it is passed to the extractor once
\* per label key: its name entry, then its component entry
EntriesOfLine(line) ==
    LET name_value == extract_label_value(line, NameKey)
        component_value == extract_label_value(line, ComponentKey)
    IN  (IF Truthy(name_value) THEN <<NamePrefix \o name_value[1]>> ELSE <<>>)
        \o (IF Truthy(component_value) THEN <<ComponentPrefix \o component_value[1]>>
            ELSE <<>>)

\* the context lines a response can hold, each with what it contributes
ContextLines ==
    UNION {{Fragments(tm[1])[i] : i \in 1..Len(Fragments(tm[1]))} :
             tm \in TextMatchChoices \ {None}}

LineTable == {<<line, EntriesOfLine(line)>> : line \in ContextLines}

\* the contributions of the lines, in line order
RECURSIVE EntriesOfLines(_)
EntriesOfLines(lines) ==
    IF lines = <<>> THEN <<>>
    ELSE (CHOOSE p \in LineTable : p[1] = Head(lines))[2] \o EntriesOfLines(Tail(lines))

\* C14: extracted_values of every result is the contribution of its first
\* context line, then of its second, and so on, a line's name before its
\* component; so its "name:" entries are extracted_names in order and its
\* "component:" entries are extracted_components in order.
C14_ValuesInLineOrderNameFirst ==
    \A i \in 1..Len(results) :
        /\ results[i].extracted_values = EntriesOfLines(results[i].context_lines)
        /\ Restricted(results[i].extracted_values, NamePrefix)
               = results[i].extracted_names
        /\ Restricted(results[i].extracted_values, ComponentPrefix)
               = results[i].extracted_components

\* C14 witness: one result whose first line gave a component and whose second
\* line gave a name, and one whose only line gave a name and a component.
C14_Witness ==
    /\ Len(results) = 2
    /\ Len(results[1].context_lines) = 2
    /\ results[1].extracted_values = <<ComponentPrefix \o <<"b">>, NamePrefix \o <<"a">> >>
    /\ Len(results[2].context_lines) = 1
    /\ results[2].extracted_values = <<NamePrefix \o <<"B">>, ComponentPrefix \o <<"a">> >>

\* C15: whatever max_results is, zero and negative included, and whatever
\* the response is, the search returns at most max(max_results, 0) results.
C15_AtMostMaxResults ==
    Len(results) <= (IF max_results > 0 THEN max_results ELSE 0)

-----------------------------------------------------------------------------
(* Properties of generate_names, checked under SpecNames.                   *)

\* C16: generate_names never raises, makes at most count * 10 strategy
\* attempts, and what it returns is at most count names, no two the same,
\* for every set of analyzed words and every topic filter.
C16_GenerateNamesNeverRaises ==
    /\ pc # "raised"
    /\ attempts <= count * 10
    /\ pc = "returned" =>
         /\ Len(generated) <= count
         /\ \A i, j \in 1..Len(generated) : generated[i] = generated[j] => i = j

====
